---------------------------- MODULE Spec2Model ----------------------------
(***************************************************************************)
(* A model of ge-dink-server (src/server.py): the webhook ingestion path   *)
(* (extract_payload, _patch_attachment_urls, dink_webhook) and the paged   *)
(* query GET /recent.json (recent_json) over the events collection.        *)
(*                                                                         *)
(* Three specifications share the module:                                  *)
(*   SpecRewrite  _patch_attachment_urls as a function of its arguments    *)
(*   SpecExtract  extract_payload as a function of the request             *)
(*   Spec         concurrent POST /dink/{token} handlers, the clock, the   *)
(*                events collection and a client paging GET /recent.json   *)
(***************************************************************************)
EXTENDS Integers, Sequences, FiniteSets, TLC

VARIABLES
    rw,        \* SpecRewrite: arguments and results of _patch_attachment_urls
    ex,        \* SpecExtract: the request and the result of extract_payload
    clock,     \* Spec: the wall clock, in microseconds
    store,     \* Spec: events_col, the documents in insertion order
    hpc,       \* Spec: each dink_webhook invocation's position
    hreq,      \* Spec: each dink_webhook invocation's token and request
    hdoc,      \* Spec: each dink_webhook invocation's payload, then its doc
    qpc,       \* Spec: the recent_json invocation's position
    q,         \* Spec: the recent_json invocation's parameters and locals
    resp,      \* Spec: the last response of GET /recent.json
    sess       \* Spec: the paging client's record of the pages it followed

vars == <<rw, ex, clock, store, hpc, hreq, hdoc, qpc, q, resp, sess>>

(***************************************************************************)
(* Python strings that the code takes apart are sequences of one-character *)
(* strings.  The characters are those of ASCII and Latin-1 but U+00B5 and   *)
(* U+00FF, whose upper case lies beyond Latin-1, and the control           *)
(* characters other than tab, line feed, form feed and carriage return.    *)
(***************************************************************************)
UpperChars == <<"A","B","C","D","E","F","G","H","I","J","K","L","M",
                "N","O","P","Q","R","S","T","U","V","W","X","Y","Z">>
LowerChars == <<"a","b","c","d","e","f","g","h","i","j","k","l","m",
                "n","o","p","q","r","s","t","u","v","w","x","y","z">>

CharIndex(c, alphabet) ==
    IF \E i \in 1..Len(alphabet) : alphabet[i] = c
    THEN CHOOSE i \in 1..Len(alphabet) : alphabet[i] = c
    ELSE 0

\* the letters with a one-to-one case mapping: those of ASCII, and
\* U+00C0-U+00DE / U+00E0-U+00FE
CasedUpper == UpperChars \o
              <<"À","Á","Â","Ã","Ä","Å","Æ","Ç","È","É","Ê","Ë","Ì","Í","Î",
                "Ï","Ð","Ñ","Ò","Ó","Ô","Õ","Ö","Ø","Ù","Ú","Û","Ü","Ý","Þ">>
CasedLower == LowerChars \o
              <<"à","á","â","ã","ä","å","æ","ç","è","é","ê","ë","ì","í","î",
                "ï","ð","ñ","ò","ó","ô","õ","ö","ø","ù","ú","û","ü","ý","þ">>

\* the Unicode case mapping of one character; U+00DF upper-cased is "SS"
LowerChar(c) ==
    IF CharIndex(c, CasedUpper) > 0 THEN <<CasedLower[CharIndex(c, CasedUpper)]>>
    ELSE <<c>>
UpperChar(c) ==
    IF c = "ß" THEN <<"S", "S">>
    ELSE IF CharIndex(c, CasedLower) > 0 THEN <<CasedUpper[CharIndex(c, CasedLower)]>>
    ELSE <<c>>

\* str.lower()
RECURSIVE Lower(_)
Lower(s) == IF Len(s) = 0 THEN << >> ELSE LowerChar(Head(s)) \o Lower(Tail(s))

\* str.upper()
RECURSIVE Upper(_)
Upper(s) == IF Len(s) = 0 THEN << >> ELSE UpperChar(Head(s)) \o Upper(Tail(s))

\* str.startswith(p)
StartsWith(s, p) == Len(s) >= Len(p) /\ SubSeq(s, 1, Len(p)) = p

\* the index of the first occurrence of sep in s, 0 when there is none
Find(s, sep) ==
    LET hits == {i \in 1..(Len(s) - Len(sep) + 1) :
                    SubSeq(s, i, i + Len(sep) - 1) = sep}
    IN IF hits = {} THEN 0 ELSE CHOOSE i \in hits : \A j \in hits : i <= j

\* s.split(sep, 1)[1], for an s that holds sep
SplitTail(s, sep) == SubSeq(s, Find(s, sep) + Len(sep), Len(s))

\* str.rstrip(c)
RECURSIVE RStrip(_, _)
RStrip(s, c) ==
    IF Len(s) > 0 /\ s[Len(s)] = c THEN RStrip(SubSeq(s, 1, Len(s) - 1), c) ELSE s

SchemeSep      == <<":", "/", "/">>
AttachmentPfx  == <<"a","t","t","a","c","h","m","e","n","t",":","/","/">>
HttpPfx        == <<"h","t","t","p",":","/","/">>
HttpsPfx       == <<"h","t","t","p","s",":","/","/">>
UploadsPath    == <<"/","u","p","l","o","a","d","s","/">>

(***************************************************************************)
(* Python values.  A dict is a function from its keys; a str that the code *)
(* takes apart holds its characters, a str that it only passes on or       *)
(* decodes as a whole holds its text.                                      *)
(***************************************************************************)
PyNone     == [k |-> "none"]
PyDict(d)  == [k |-> "dict", d |-> d]
PyList(l)  == [k |-> "list", l |-> l]
PyStr(s)   == [k |-> "str", s |-> s]
PyText(t)  == [k |-> "text", t |-> t]
PyInt(n)   == [k |-> "int", n |-> n]
\* an exception leaving the function
Raised     == [k |-> "raise"]
EmptyDict  == PyDict(<< >>)

IsDict(v)  == v.k = "dict"
\* isinstance(v, str)
IsStr(v)   == v.k \in {"str", "text"}
HasKey(v, key) == key \in DOMAIN v.d
\* dict.get(key), None when the key is missing
Get(v, key) == IF HasKey(v, key) THEN v.d[key] ELSE PyNone
\* the dict with d[key] = val
Put(v, key, val) ==
    PyDict([x \in DOMAIN v.d \cup {key} |-> IF x = key THEN val ELSE v.d[x]])
\* Python truthiness of the values above
Truthy(v) ==
    CASE v.k = "none" -> FALSE
      [] v.k = "dict" -> DOMAIN v.d # {}
      [] v.k = "list" -> Len(v.l) > 0
      [] v.k = "str"  -> Len(v.s) > 0
      [] v.k = "text" -> v.t # ""
      [] v.k = "int"  -> v.n # 0
      [] OTHER        -> TRUE


(***************************************************************************)
(* The texts of the requests: bodies and field values.  A text is decoded  *)
(* as a whole (JsonLoads) or taken apart through its characters (Chars).   *)
(***************************************************************************)
TxtLoot    == "{\"type\":\"loot\"}"
TxtDeath   == "{\"type\":\"Death\"}"
TxtEmbed   == "{\"embeds\":[{\"image\":{\"url\":\"attachment://S\"}}]}"
TxtBadEmb  == "{\"embeds\":[7]}"
TxtEmpty   == "{}"
TxtNull    == "null"
TxtList    == "[1]"
TxtBad     == "oops"
TxtStrasse == "{\"type\":\"Straße\"}"
TxtSeven   == "{\"type\":7}"
TxtTypes   == "{\"type\":[\"a\\u00a0\",7]}"
TxtNote    == "hi"
TxtAttS    == "attachment://s"
TxtNone    == ""

\* the characters of a text
Chars(text) ==
    CASE text = TxtLoot    -> <<"{","\"","t","y","p","e","\"",":","\"","l","o","o","t","\"","}">>
      [] text = TxtDeath   -> <<"{","\"","t","y","p","e","\"",":","\"","D","e","a","t","h","\"","}">>
      [] text = TxtEmbed   -> <<"{","\"","e","m","b","e","d","s","\"",":","[","{","\"","i","m","a","g","e","\"",":","{","\"","u","r","l","\"",":","\"","a","t","t","a","c","h","m","e","n","t",":","/","/","S","\"","}","}","]","}">>
      [] text = TxtBadEmb  -> <<"{","\"","e","m","b","e","d","s","\"",":","[","7","]","}">>
      [] text = TxtEmpty   -> <<"{","}">>
      [] text = TxtNull    -> <<"n","u","l","l">>
      [] text = TxtList    -> <<"[","1","]">>
      [] text = TxtBad     -> <<"o","o","p","s">>
      [] text = TxtStrasse -> <<"{","\"","t","y","p","e","\"",":","\"","S","t","r","a","ß","e","\"","}">>
      [] text = TxtSeven   -> <<"{","\"","t","y","p","e","\"",":","7","}">>
      [] text = TxtTypes   -> <<"{","\"","t","y","p","e","\"",":","[","\"","a","\\","u","0","0","a","0","\"",",","7","]","}">>
      [] text = TxtNote    -> <<"h","i">>
      [] text = TxtAttS    -> <<"a","t","t","a","c","h","m","e","n","t",":","/","/","s">>
      [] text = TxtNone    -> << >>

\* the characters of a str value
StrChars(v) == IF v.k = "str" THEN v.s ELSE Chars(v.t)

(***************************************************************************)
(* _patch_attachment_urls (src/server.py 174-202).  The mapping is a       *)
(* function from file names to saved references, both strings.  Every      *)
(* local of the code is the parameter of the operator that models the      *)
(* lines after its assignment.                                             *)
(***************************************************************************)
\* mapping.get(key); the empty string stands for None as well: the code
\* only tests the result's truth
MapGet(mapping, key) == IF key \in DOMAIN mapping THEN mapping[key] ELSE << >>

\* a or b, on strings
StrOr(a, b) == IF Len(a) > 0 THEN a ELSE b

IsAbsolute(ref) == StartsWith(ref, HttpPfx) \/ StartsWith(ref, HttpsPfx)

\* lines 185-190, with saved looked up
ReplSaved(u, saved, base_url) ==
    IF Len(saved) > 0
    THEN IF IsAbsolute(saved)
         THEN PyStr(saved)
         ELSE PyStr(RStrip(base_url, "/") \o UploadsPath \o saved)
    ELSE u

\* line 184, with key = low.split("://", 1)[1]
ReplKey(u, key, mapping, base_url) ==
    ReplSaved(u, StrOr(MapGet(mapping, key), MapGet(mapping, Lower(key))), base_url)

\* lines 182-183 and 190, with low = u.lower()
ReplLow(u, low, mapping, base_url) ==
    IF StartsWith(low, AttachmentPfx)
    THEN ReplKey(u, SplitTail(low, SchemeSep), mapping, base_url)
    ELSE u

\* repl with the scheme compared case-sensitively (u.startswith in place of
\* low.startswith)
repl_case_sensitive_scheme(u, mapping, base_url) ==
    IF ~IsStr(u) THEN u
    ELSE IF StartsWith(StrChars(u), AttachmentPfx)
         THEN ReplKey(u, SplitTail(Lower(StrChars(u)), SchemeSep), mapping, base_url)
         ELSE u

\* repl without the scheme guard and with the key as the default reference
\* (saved = mapping.get(key) or key), for every string that holds "://"
repl_unguarded(u, mapping, base_url) ==
    IF ~IsStr(u) THEN u
    ELSE IF Find(Lower(StrChars(u)), SchemeSep) > 0
         THEN ReplSaved(u, StrOr(MapGet(mapping, SplitTail(Lower(StrChars(u)), SchemeSep)),
                                 SplitTail(Lower(StrChars(u)), SchemeSep)), base_url)
         ELSE u

\* the nested function repl(u), lines 178-190
repl(u, mapping, base_url) ==
    IF ~IsStr(u) THEN u ELSE ReplLow(u, Lower(StrChars(u)), mapping, base_url)

\* "url" in img, for the img of lines 194 and 197: "yes", "no", or "raise"
\* (TypeError: an int is not a container)
UrlIn(img) ==
    CASE img.k = "dict" -> IF HasKey(img, "url") THEN "yes" ELSE "no"
      [] img.k = "str"  -> IF Find(img.s, <<"u","r","l">>) > 0 THEN "yes" ELSE "no"
      [] img.k = "text" -> IF Find(Chars(img.t), <<"u","r","l">>) > 0 THEN "yes" ELSE "no"
      [] img.k = "list" -> IF \E i \in 1..Len(img.l) : img.l[i] = PyStr(<<"u","r","l">>)
                           THEN "yes" ELSE "no"
      [] OTHER          -> "raise"

\* (v or {})
OrEmptyDict(v) == IF Truthy(v) THEN v ELSE EmptyDict

\* lines 195-196 (198-199), with has = ("url" in img)
PatchUrl(emb, field, img, has, mapping, base_url) ==
    CASE has = "raise" -> Raised
      [] has = "no"    -> emb
      [] OTHER         ->
           IF ~IsDict(img) THEN Raised             \* img["url"] = ...: TypeError
           ELSE Put(emb, field, Put(img, "url", repl(Get(img, "url"), mapping, base_url)))

\* lines 194-196 (field = "image") and 197-199 (field = "thumbnail") on one
\* element of embeds; Raised when a statement raises
PatchField(emb, field, mapping, base_url) ==
    IF ~IsDict(emb) THEN Raised                    \* emb.get: AttributeError
    ELSE PatchUrl(emb, field, OrEmptyDict(Get(emb, field)),
                  UrlIn(OrEmptyDict(Get(emb, field))), mapping, base_url)

\* lines 197-199, after lines 194-196 gave e1
PatchThumb(e1, mapping, base_url) ==
    IF e1 = Raised THEN Raised ELSE PatchField(e1, "thumbnail", mapping, base_url)

\* the body of the loop, lines 194-199
PatchEmbed(emb, mapping, base_url) ==
    PatchThumb(PatchField(emb, "image", mapping, base_url), mapping, base_url)

\* the patched element h before the patched rest t
ConsPatched(h, t) == IF h = Raised \/ t = Raised THEN Raised ELSE PyList(<<h>> \o t.l)

\* the loop of lines 193-199 over the list embeds: the list of the patched
\* elements, or Raised
RECURSIVE PatchEmbeds(_, _, _)
PatchEmbeds(embeds, mapping, base_url) ==
    IF Len(embeds) = 0 THEN PyList(<< >>)
    ELSE ConsPatched(PatchEmbed(Head(embeds), mapping, base_url),
                     PatchEmbeds(Tail(embeds), mapping, base_url))

\* the elements are patched in place: payload with the patched list l
SetEmbeds(payload, l) == IF l = Raised THEN Raised ELSE Put(payload, "embeds", l)

\* lines 192-199, with e = payload.get("embeds")
PatchEmbedsOf(payload, e, mapping, base_url) ==
    IF ~Truthy(e) THEN payload                     \* (... or []): no iteration
    ELSE IF e.k # "list" THEN Raised               \* elements without .get
    ELSE SetEmbeds(payload, PatchEmbeds(e.l, mapping, base_url))

\* lines 200-202, after the loop gave p1
PatchScreenshot(p1, mapping, base_url) ==
    IF p1 = Raised THEN Raised
    ELSE IF HasKey(p1, "screenshot_url")
         THEN Put(p1, "screenshot_url", repl(Get(p1, "screenshot_url"), mapping, base_url))
         ELSE p1

_patch_attachment_urls(payload, mapping, base_url) ==
    IF ~IsDict(payload) THEN Raised                \* payload.get: AttributeError
    ELSE PatchScreenshot(PatchEmbedsOf(payload, Get(payload, "embeds"), mapping, base_url),
                         mapping, base_url)

(***************************************************************************)
(* SpecRewrite: _patch_attachment_urls applied once, then once more to its *)
(* own result, on documents, mappings and base URLs drawn from the sets    *)
(* below.                                                                  *)
(***************************************************************************)
MaxEmbeds == 1

NameLo   == <<"s">>
NameUp   == <<"S">>
NameMiss == <<"x">>
NameAccUp == <<"É">>
NameAccLo == <<"é">>
RefRel   == <<"r">>                                     \* a saved basename
RefAbs   == HttpsPfx \o <<"g", "/", "r">>               \* a public URL
RefAbs2  == HttpPfx \o <<"h", "/", "u", "/", "q">>

UrlAttLo   == PyStr(AttachmentPfx \o NameLo)            \* attachment://s
UrlAttUp   == PyStr(AttachmentPfx \o NameUp)            \* attachment://S
UrlAttCaps == PyStr(Upper(AttachmentPfx) \o NameUp)     \* ATTACHMENT://S
UrlAttMiss == PyStr(AttachmentPfx \o NameMiss)          \* attachment://x
UrlAttAcc  == PyStr(AttachmentPfx \o NameAccUp)         \* attachment://É
UrlPlain   == PyStr(HttpPfx \o <<"h", "/", "i">>)       \* http://h/i
Absent     == [k |-> "absent"]

ScreenshotChoices ==
    {Absent, UrlAttLo, UrlAttUp, UrlAttCaps, UrlAttMiss, UrlAttAcc, UrlPlain, PyInt(7)}
ImageChoices      == {Absent, UrlAttLo, UrlAttUp, UrlAttCaps, UrlAttMiss, UrlPlain}
ThumbChoices      == {Absent, UrlAttCaps, UrlAttMiss}

\* {"url": u}, or nothing when u is Absent
Field(key, u) == IF u = Absent THEN << >> ELSE (key :> u)
Embed(i, t) ==
    PyDict(Field("image", IF i = Absent THEN Absent ELSE PyDict(Field("url", i)))
           @@ Field("thumbnail", IF t = Absent THEN Absent ELSE PyDict(Field("url", t))))
EmbedSet == {Embed(i, t) : i \in ImageChoices, t \in ThumbChoices}

RECURSIVE SeqsUpTo(_, _)
SeqsUpTo(S, n) ==
    IF n = 0 THEN {<< >>}
    ELSE LET shorter == SeqsUpTo(S, n - 1)
         IN shorter \cup {Append(l, x) : l \in {m \in shorter : Len(m) = n - 1}, x \in S}

Document(embeds, shot) ==
    PyDict(Field("embeds", embeds) @@ Field("screenshot_url", shot))

\* documents on which a statement of the function raises
MalformedDocs ==
    { PyDict("embeds" :> PyStr(NameLo)),
      PyDict("embeds" :> PyList(<<PyInt(7)>>)),
      PyDict("embeds" :> PyList(<<PyDict("image" :> PyInt(7))>>)) }

RewriteDocs ==
    {Document(e, s) : e \in {PyList(l) : l \in SeqsUpTo(EmbedSet, MaxEmbeds)} \cup {Absent},
                      s \in ScreenshotChoices}
    \cup MalformedDocs

\* file name -> saved reference.  extract_payload (line 254) stores the
\* lower-cased name; a caller of the function may pass any key
RewriteMappings ==
    { << >>,
      (NameLo :> RefRel),
      (NameLo :> RefAbs),
      (NameUp :> RefRel),
      (NameAccLo :> RefRel),
      (NameLo :> RefAbs2) @@ (NameUp :> RefRel) }

\* str(request.base_url) ends with "/"; a caller may pass it without
RewriteBases == { HttpPfx \o <<"h">>, HttpPfx \o <<"h", "/">>, HttpsPfx \o <<"h", "/">> }

RwIdle == [pass |-> 0]
ExIdle == [pass |-> 0]

InitRewrite ==
    /\ rw \in [doc : RewriteDocs, mapping : RewriteMappings, base : RewriteBases,
               pass : {0}, out1 : {PyNone}, out2 : {PyNone}]
    /\ ex = ExIdle
    /\ clock = 0 /\ store = << >> /\ hpc = << >> /\ hreq = << >> /\ hdoc = << >>
    /\ qpc = "idle" /\ q = << >> /\ resp = << >> /\ sess = << >>

\* the call of line 262, as the function alone
RewriteOnce ==
    /\ rw.pass = 0
    /\ rw' = [rw EXCEPT !.pass = 1,
                        !.out1 = _patch_attachment_urls(rw.doc, rw.mapping, rw.base)]
    /\ UNCHANGED <<ex, clock, store, hpc, hreq, hdoc, qpc, q, resp, sess>>

\* the function applied to its own result, same mapping and base URL
RewriteAgain ==
    /\ rw.pass = 1
    /\ rw.out1 # Raised
    /\ rw' = [rw EXCEPT !.pass = 2,
                        !.out2 = _patch_attachment_urls(rw.out1, rw.mapping, rw.base)]
    /\ UNCHANGED <<ex, clock, store, hpc, hreq, hdoc, qpc, q, resp, sess>>

NextRewrite == RewriteOnce \/ RewriteAgain

SpecRewrite == InitRewrite /\ [][NextRewrite]_vars

(***************************************************************************)
(* extract_payload (src/server.py 210-275) and what it calls.              *)
(*                                                                         *)
(* A request holds: ctype, the media types its content-type header names;  *)
(* body, the body as the parsers see it (a text, the key=value pairs of a  *)
(* form, or the parts of a multipart body); token and base, the path       *)
(* parameter and str(request.base_url); storage, where _save_upload ends   *)
(* up writing; replay, whether request.body() still answers after          *)
(* request.form() has failed (form() failed before reading the stream).    *)
(***************************************************************************)
CtJson      == "application/json"
CtForm      == "application/x-www-form-urlencoded"
CtMultipart == "multipart/form-data"

\* json.loads(text) on the texts above; Raised for a text that is no JSON
JsonLoads(text) ==
    CASE text = TxtLoot   -> PyDict("type" :> PyStr(<<"l","o","o","t">>))
      [] text = TxtDeath  -> PyDict("type" :> PyStr(<<"D","e","a","t","h">>))
      [] text = TxtEmbed  -> PyDict("embeds" :> PyList(<<PyDict("image" :> PyDict("url" :> UrlAttUp))>>))
      [] text = TxtBadEmb -> PyDict("embeds" :> PyList(<<PyInt(7)>>))
      [] text = TxtEmpty  -> EmptyDict
      [] text = TxtNull   -> PyNone
      [] text = TxtList   -> PyList(<<PyInt(1)>>)
      [] text = TxtStrasse -> PyDict("type" :> PyStr(<<"S","t","r","a","ß","e">>))
      [] text = TxtSeven   -> PyDict("type" :> PyInt(7))
      [] text = TxtTypes   -> PyDict("type" :> PyList(<<PyStr(<<"a", " ">>), PyInt(7)>>))
      [] OTHER            -> Raised

NoneIfRaised(v) == IF v = Raised THEN PyNone ELSE v
\* lines 204-208
_try_json(s) == NoneIfRaised(JsonLoads(s))

\* the body as one text: only a text body can be JSON
BodyText(body) == IF body.kind = "raw" THEN body.text ELSE TxtBad

\* re.sub(r"[^A-Za-z0-9._-]+", "_", fn), lines 140-142
SafeChar(c) ==
    \/ CharIndex(c, UpperChars) > 0
    \/ CharIndex(c, LowerChars) > 0
    \/ c \in {"0","1","2","3","4","5","6","7","8","9",".","_","-"}

RECURSIVE SubUnsafe(_, _)
SubUnsafe(fn, inRun) ==
    IF Len(fn) = 0 THEN << >>
    ELSE IF SafeChar(Head(fn)) THEN <<Head(fn)>> \o SubUnsafe(Tail(fn), FALSE)
    ELSE IF inRun THEN SubUnsafe(Tail(fn), TRUE)
    ELSE <<"_">> \o SubUnsafe(Tail(fn), TRUE)

UploadBin == <<"u","p","l","o","a","d",".","b","i","n">>
_safe_name(fn) == SubUnsafe(IF Len(fn) = 0 THEN UploadBin ELSE fn, FALSE)

\* the white space str.strip() removes: blank, tab, line feed, carriage
\* return, form feed, and the no-break space U+00A0
Whitespace == {" ", "\t", "\n", "\r", "\f", " "}
RECURSIVE LStripWs(_)
LStripWs(s) == IF Len(s) > 0 /\ Head(s) \in Whitespace THEN LStripWs(Tail(s)) ELSE s
RECURSIVE RStripWs(_)
RStripWs(s) ==
    IF Len(s) > 0 /\ s[Len(s)] \in Whitespace
    THEN RStripWs(SubSeq(s, 1, Len(s) - 1)) ELSE s
\* str.strip()
Strip(s) == RStripWs(LStripWs(s))

Digits == <<"0","1","2","3","4","5","6","7","8","9">>

\* token[:8]
First8(token) == SubSeq(token, 1, IF Len(token) < 8 THEN Len(token) ELSE 8)

\* line 150 after "screenshots/": token[:8]/stamp_rand_orig, the stamp and
\* the random suffix written as the number n of the part
KeyName(filename, token, n) ==
    First8(token) \o <<"/", "k", Digits[n + 1], "_">> \o _safe_name(filename)

ScreenshotsDir == <<"s","c","r","e","e","n","s","h","o","t","s","/">>
\* blob.public_url without the key: the storage host g and the bucket b
PublicPfx == HttpsPfx \o <<"g", "/", "b", "/">>

\* lines 144-172: the URL of the n-th part's saved file.  storage is where
\* the file ends up: the bucket (lines 153-160), or the local directory
\* (lines 166-172, also after a failed upload)
_save_upload(filename, token, n, storage, base_url) ==
    IF storage = "firebase"
    THEN PublicPfx \o ScreenshotsDir \o KeyName(filename, token, n)
    ELSE RStrip(base_url, "/") \o UploadsPath \o KeyName(filename, token, n)

\* urllib.parse.parse_qs, line 231: the values of each key in order, blank
\* values dropped
QsKeys(pairs) == {pairs[i].key : i \in {j \in 1..Len(pairs) : pairs[j].val # ""}}
QsFirst(pairs, key) ==
    LET hits == {i \in 1..Len(pairs) : pairs[i].key = key /\ pairs[i].val # ""}
    IN pairs[CHOOSE i \in hits : \A j \in hits : i <= j].val
BodyPairs(body) == IF body.kind = "form" THEN body.pairs ELSE << >>
BodyParts(body) == IF body.kind = "multipart" THEN body.parts ELSE << >>
BodyEmpty(body) ==
    CASE body.kind = "raw"  -> body.text = ""
      [] body.kind = "form" -> Len(body.pairs) = 0
      [] OTHER              -> FALSE

\* line 232
FormFields(pairs) == PyDict([key \in QsKeys(pairs) |-> PyText(QsFirst(pairs, key))])

\* lines 234-235 for one key: the decoded field, None when it is missing
TryField(fields, key) ==
    IF HasKey(fields, key) THEN _try_json(fields.d[key].t) ELSE PyNone

\* lines 233-238, with the two fields decoded
FirstDict(pj, pl, fields) == IF IsDict(pj) THEN pj ELSE IF IsDict(pl) THEN pl ELSE fields

\* lines 233-238
ResolveForm(fields) ==
    FirstDict(TryField(fields, "payload_json"), TryField(fields, "payload"), fields)

\* lines 229-238; the body read as a query string never raises
FormBranch(request) == ResolveForm(FormFields(BodyPairs(request.body)))

\* lines 249-256: fields (the first value of each key) and saved (lower-cased
\* file name -> URL, the last part of a name wins)
PartFields(parts) ==
    LET idx == {i \in 1..Len(parts) : ~parts[i].file}
        first(key) == CHOOSE i \in idx :
                         parts[i].key = key /\ \A j \in idx : parts[j].key = key => i <= j
    IN PyDict([key \in {parts[i].key : i \in idx} |-> PyText(parts[first(key)].val)])

PartSaved(parts, token, storage, base_url) ==
    LET idx == {i \in 1..Len(parts) : parts[i].file /\ Len(Strip(parts[i].filename)) > 0}
        name(i) == Lower(Strip(parts[i].filename))
        last(nm) == CHOOSE i \in idx : name(i) = nm /\ \A j \in idx : name(j) = nm => j <= i
    IN [nm \in {name(i) : i \in idx} |->
            _save_upload(parts[last(nm)].filename, token, last(nm), storage, base_url)]

\* line 257
RawPayload(fields) ==
    IF Truthy(Get(fields, "payload_json")) THEN fields.d["payload_json"].t
    ELSE IF Truthy(Get(fields, "payload")) THEN fields.d["payload"].t
    ELSE TxtEmpty

\* lines 258-261, with v = json.loads(raw)
OrFields(v, fields) == IF v = Raised THEN fields ELSE v

\* lines 257-263
PatchParts(fields, saved, base_url) ==
    _patch_attachment_urls(OrFields(JsonLoads(RawPayload(fields)), fields), saved, base_url)

\* lines 244-263; Raised when the try block raises
MultipartBranch(request) ==
    IF request.body.kind # "multipart" /\ ~BodyEmpty(request.body)
    THEN Raised                                  \* request.form(): no boundary found
    ELSE PatchParts(PartFields(BodyParts(request.body)),
                    PartSaved(BodyParts(request.body), request.token, request.storage,
                              request.base),
                    request.base)

DictOrEmpty(obj) == IF IsDict(obj) THEN obj ELSE EmptyDict

\* lines 268-275.  request.body() answers unless request.form() has read
\* the stream: when request.form() never ran, when request.json() had
\* cached the body, or when request.form() failed before reading
LastDitch(request) ==
    IF \/ CtMultipart \notin request.ctype
       \/ CtJson \in request.ctype
       \/ request.replay
    THEN DictOrEmpty(_try_json(BodyText(request.body)))
    ELSE EmptyDict

\* lines 267-275, after the multipart branch gave m
AfterMultipart(request, m) == IF m # Raised THEN m ELSE LastDitch(request)

\* lines 227-275, after the JSON branch gave j
AfterJson(request, j) ==
    IF j # Raised THEN j
    ELSE IF CtForm \in request.ctype THEN FormBranch(request)
    ELSE AfterMultipart(request, IF CtMultipart \in request.ctype
                                 THEN MultipartBranch(request) ELSE Raised)

extract_payload(request) ==
    AfterJson(request, IF CtJson \in request.ctype
                       THEN JsonLoads(BodyText(request.body)) ELSE Raised)

(***************************************************************************)
(* SpecExtract: extract_payload on requests drawn from the sets below.     *)
(***************************************************************************)
MaxPairs == 2
MaxParts == 2

ExtractCtypes ==
    { {}, {CtJson}, {CtForm}, {CtMultipart}, {CtJson, CtForm}, {CtJson, CtMultipart} }

RawBodies == {[kind |-> "raw", text |-> t] :
                 t \in {TxtLoot, TxtEmbed, TxtNull, TxtList, TxtBad, TxtNone}}

FormPairs == {[key |-> key, val |-> v] :
                 key \in {"payload_json", "payload", "note"},
                 v \in {TxtLoot, TxtDeath, TxtList, TxtBad, TxtNone}}
FormBodies == {[kind |-> "form", pairs |-> l] : l \in SeqsUpTo(FormPairs, MaxPairs)}

FieldPart(key, v) == [file |-> FALSE, key |-> key, val |-> v, filename |-> << >>]
FilePart(fn)      == [file |-> TRUE, key |-> "file", val |-> TxtNone, filename |-> fn]
PartSet ==
    {FieldPart("payload_json", v) : v \in {TxtEmbed, TxtBadEmb, TxtList, TxtBad, TxtNone}}
    \cup {FieldPart("payload", TxtLoot), FieldPart("note", TxtNote),
          FieldPart("screenshot_url", TxtAttS)}
    \cup {FilePart(NameUp), FilePart(<<"\t", "s", "/", "?", "?">>)}
MultipartBodies == {[kind |-> "multipart", parts |-> l] : l \in SeqsUpTo(PartSet, MaxParts)}

BaseUrl == HttpPfx \o <<"h", "/">>

\* path parameters
Tok1    == <<"t", "1">>
Tok2    == <<"t", "2">>
TokLong == <<"t", "o", "k", "e", "n", "1", "2", "3", "4">>

Requests ==
    {r \in [ctype : ExtractCtypes,
            body : RawBodies \cup FormBodies \cup MultipartBodies,
            token : {Tok1, TokLong}, base : {BaseUrl},
            storage : {"firebase", "local"}, replay : BOOLEAN] :
        \* a multipart body is not sent as a form, and only a request with
        \* file parts reaches the storage
        /\ r.body.kind = "multipart" => CtForm \notin r.ctype
        /\ r.storage = "firebase" => r.body.kind = "multipart"
        /\ r.token = TokLong => r.body.kind = "multipart"
        /\ r.replay => CtMultipart \in r.ctype /\ r.body.kind # "multipart"}

InitExtract ==
    /\ ex \in [pass : {0}, request : Requests, result : {PyNone}]
    /\ rw = RwIdle
    /\ clock = 0 /\ store = << >> /\ hpc = << >> /\ hreq = << >> /\ hdoc = << >>
    /\ qpc = "idle" /\ q = << >> /\ resp = << >> /\ sess = << >>

Extract ==
    /\ ex.pass = 0
    /\ ex' = [ex EXCEPT !.pass = 1, !.result = extract_payload(ex.request)]
    /\ UNCHANGED <<rw, clock, store, hpc, hreq, hdoc, qpc, q, resp, sess>>

NextExtract == Extract

SpecExtract == InitExtract /\ [][NextExtract]_vars

(***************************************************************************)
(* Time.  An instant is a number of microseconds since the epoch, as       *)
(* datetime.now(timezone.utc) gives it.                                    *)
(***************************************************************************)
UsPerMs  == 1000
UsPerSec == 1000000

\* line 342: a BSON datetime holds milliseconds; the driver drops the rest
TimeDt(now) == now \div UsPerMs

\* line 340: now.isoformat().replace("+00:00", "Z"), as the seconds and the
\* microsecond field; isoformat() writes ".ffffff" only when the field is
\* not 0
IsoTime(now) == [sec |-> now \div UsPerSec, usec |-> now % UsPerSec]

\* the store's order on the strings of IsoTime: the seconds have one width,
\* and then "Z" sorts after ".ffffffZ"
TimeStrGreater(x, y) ==
    IF x.sec # y.sec THEN x.sec > y.sec
    ELSE IF x.usec = 0 THEN y.usec # 0
    ELSE IF y.usec = 0 THEN FALSE
    ELSE x.usec > y.usec

\* a since/until parameter: absent or empty, a string of digits (unix
\* seconds), an ISO-8601 string (of the instant us), or anything else
NoParam      == [kind |-> "none", v |-> 0]
UnixParam(n) == [kind |-> "unix", v |-> n]
IsoParam(us) == [kind |-> "iso", v |-> us]
BadParam     == [kind |-> "bad", v |-> 0]
\* a string of digits beyond the range of datetime (year 9999)
HugeParam    == [kind |-> "huge", v |-> 0]

NoTime == [some |-> FALSE, us |-> 0]
\* lines 296-311.  fromtimestamp (line 303) raises for the digits of
\* HugeParam and fromisoformat (line 306) for BadParam: None (lines 310-311)
_parse_time_param_dt(val) ==
    CASE val.kind = "unix" -> [some |-> TRUE, us |-> val.v * UsPerSec]
      [] val.kind = "iso"  -> [some |-> TRUE, us |-> val.v]
      [] val.kind = "huge" -> NoTime
      [] val.kind = "bad"  -> NoTime
      [] val.kind = "none" -> NoTime

(***************************************************************************)
(* GET /recent.json (src/server.py 373-433).                               *)
(***************************************************************************)
LimitCap == 10000
Min(a, b) == IF a < b THEN a ELSE b
Max(a, b) == IF a > b THEN a ELSE b

\* line 390 without the lower clamp (min(int(limit), 10000))
ClampLimit_no_floor(limit) == Min(limit, LimitCap)

\* line 390
ClampLimit(limit) == Max(1, Min(limit, LimitCap))
\* line 391
ClampOffset(offset) == Max(0, offset)

\* lines 393-406: the query document.  An empty token or type adds no
\* condition; a bound that does not parse adds none
BuildQuery(token, type, since, until) ==
    [ token     |-> token,
      eventType |-> IF Len(type) > 0 THEN Upper(type) ELSE << >>,
      hasType   |-> Len(type) > 0,
      gte       |-> _parse_time_param_dt(since),
      lte       |-> _parse_time_param_dt(until) ]

\* whether a stored document satisfies the query document; the bounds are
\* sent as BSON datetimes
Matches(doc, query) ==
    /\ Len(query.token) > 0 => doc.token = query.token
    /\ query.hasType => doc.eventType = query.eventType
    /\ query.gte.some => doc.time_dt >= TimeDt(query.gte.us)
    /\ query.lte.some => doc.time_dt <= TimeDt(query.lte.us)

MatchingIds(docs, query) == {i \in 1..Len(docs) : Matches(docs[i], query)}

\* line 408
CountDocuments(docs, query) == Cardinality(MatchingIds(docs, query))

\* sort=[("time_dt", -1), ("time", -1)]: a sorts before b
SortsBefore(a, b) ==
    \/ a.time_dt > b.time_dt
    \/ a.time_dt = b.time_dt /\ TimeStrGreater(a.time, b.time)

\* the orders in which the store may return the documents ids: every
\* order that follows the sort keys.  Documents equal in both keys have no
\* specified order, and two executions of one query may differ
SortedOrdersOf(docs, ids) ==
    LET n == Cardinality(ids)
    IN {o \in [1..n -> ids] :
          /\ \A i, j \in 1..n : i # j => o[i] # o[j]
          /\ \A i, j \in 1..n : i < j => ~SortsBefore(docs[o[j]], docs[o[i]])}

\* the orders of the matching documents
SortedOrders(docs, query) == SortedOrdersOf(docs, MatchingIds(docs, query))

\* the documents a cursor can still reach after it skipped and returned
\* the documents of seen, the last of them last: the matching documents it
\* has not passed and that do not sort before last
Remaining(docs, query, seen, last) ==
    {i \in MatchingIds(docs, query) \ seen : ~SortsBefore(docs[i], docs[last])}

\* line 411: skip and limit
Page(order, skip, limit) == SubSeq(order, skip + 1, Min(Len(order), skip + limit))

\* lines 414-421: the event of the stored document with _id = id
EventOf(docs, id) ==
    [ id        |-> id,
      token     |-> docs[id].token,
      time      |-> docs[id].time,
      eventType |-> docs[id].eventType,
      payload   |-> IF Truthy(docs[id].payload) THEN docs[id].payload ELSE EmptyDict ]

NoOffset == -1      \* next_offset: null
\* lines 423-425 with the end of the listing taken from the page alone
\* (None when the page is empty)
NextOffset_until_empty(offset, n, total) == IF n = 0 THEN NoOffset ELSE offset + n

\* lines 423-425
NextOffset(offset, n, total) == IF offset + n >= total THEN NoOffset ELSE offset + n

(***************************************************************************)
(* POST /dink/{token} (src/server.py 326-349).                             *)
(***************************************************************************)
\* str(n) of an int
RECURSIVE NatStr(_)
NatStr(n) == IF n < 10 THEN <<Digits[n + 1]>> ELSE NatStr(n \div 10) \o <<Digits[(n % 10) + 1]>>
IntStr(n) == IF n < 0 THEN <<"-">> \o NatStr(-n) ELSE NatStr(n)

\* the characters of a key of the dicts above
KeyChars(key) ==
    CASE key = "type"           -> <<"t","y","p","e">>
      [] key = "url"            -> <<"u","r","l">>
      [] key = "image"          -> <<"i","m","a","g","e">>
      [] key = "thumbnail"      -> <<"t","h","u","m","b","n","a","i","l">>
      [] key = "embeds"         -> <<"e","m","b","e","d","s">>
      [] key = "screenshot_url" -> <<"s","c","r","e","e","n","s","h","o","t","_","u","r","l">>

\* repr of one character of a string quoted by quote: the escapes of the
\* backslash, the quote, and the characters that are not printable
ReprChar(c, quote) ==
    CASE c = "\\" -> <<"\\", "\\">>
      [] c = quote -> <<"\\", c>>
      [] c = "\t" -> <<"\\", "t">>
      [] c = "\n" -> <<"\\", "n">>
      [] c = "\r" -> <<"\\", "r">>
      [] c = "\f" -> <<"\\", "x", "0", "c">>
      [] c = " "  -> <<"\\", "x", "a", "0">>
      [] c = "­"  -> <<"\\", "x", "a", "d">>
      [] OTHER    -> <<c>>

RECURSIVE ReprChars(_, _)
ReprChars(s, quote) ==
    IF Len(s) = 0 THEN << >> ELSE ReprChar(Head(s), quote) \o ReprChars(Tail(s), quote)

HasChar(s, c) == \E i \in 1..Len(s) : s[i] = c
\* repr of a str: in double quotes when it holds a single quote and no
\* double quote, in single quotes otherwise
ReprStr(s) ==
    IF HasChar(s, "'") /\ ~HasChar(s, "\"")
    THEN <<"\"">> \o ReprChars(s, "\"") \o <<"\"">>
    ELSE <<"'">> \o ReprChars(s, "'") \o <<"'">>

\* repr(v): a str, an int, None, a list with its elements, a dict of at
\* most one key (a dict here keeps no order of its keys)
RECURSIVE Repr(_)
RECURSIVE ReprItems(_)
ReprItems(l) ==
    IF Len(l) = 0 THEN << >>
    ELSE IF Len(l) = 1 THEN Repr(l[1])
    ELSE Repr(l[1]) \o <<",", " ">> \o ReprItems(Tail(l))
Repr(v) ==
    CASE v.k = "none" -> <<"N","o","n","e">>
      [] v.k = "int"  -> IntStr(v.n)
      [] IsStr(v)     -> ReprStr(StrChars(v))
      [] v.k = "list" -> <<"[">> \o ReprItems(v.l) \o <<"]">>
      [] v.k = "dict" /\ DOMAIN v.d = {} -> <<"{", "}">>
      [] v.k = "dict" /\ Cardinality(DOMAIN v.d) = 1 ->
           LET key == CHOOSE x \in DOMAIN v.d : TRUE
           IN <<"{", "'">> \o KeyChars(key) \o <<"'", ":", " ">> \o Repr(v.d[key]) \o <<"}">>

\* str(v): a string is itself, every other value its repr
StrOf(v) == IF IsStr(v) THEN StrChars(v) ELSE Repr(v)

\* line 336
EventType(payload) ==
    IF IsDict(payload) /\ HasKey(payload, "type")
    THEN Upper(StrOf(payload.d.type)) ELSE << >>

\* lines 337-347; ip and createdAt are left out: no query reads them
BuildDoc(token, payload, now) ==
    [ token     |-> token,
      time      |-> IsoTime(now),
      time_dt   |-> TimeDt(now),
      eventType |-> EventType(payload),
      payload   |-> payload ]

(***************************************************************************)
(* Spec: the server.  Invocations of dink_webhook run concurrently: each   *)
(* reads the clock and builds its doc in one step (the await of line 334   *)
(* touches nothing shared) and its insert reaches the store in a later     *)
(* step (line 348).  One client calls GET /recent.json: the count of line  *)
(* 408 and the find of line 411 reach the store in separate steps, and the  *)
(* cursor of line 413 reads the page batch by batch, each batch a step.    *)
(* The client either asks anew or follows next_offset.                     *)
(***************************************************************************)
MaxStore == 2
\* the documents of one batch of the cursor, scaled to the store of the
\* model (the store sends 101 documents in the first batch)
BatchSize == 1

Handlers == {1, 2}
ClockInstants == {0, 200, 500, 1000000}

JsonRequest(text) ==
    [ctype |-> {CtJson}, body |-> [kind |-> "raw", text |-> text],
     token |-> << >>, base |-> BaseUrl, storage |-> "local", replay |-> FALSE]

\* the POSTs that arrive: token and request
Ingests ==
    { [token |-> Tok1, request |-> JsonRequest(TxtLoot)],
      [token |-> Tok2, request |-> JsonRequest(TxtStrasse)],
      [token |-> Tok1, request |-> JsonRequest(TxtNull)],
      [token |-> Tok2, request |-> JsonRequest(TxtTypes)] }

TypeLoot == <<"l","o","o","t">>
\* the GETs that arrive: the filter, and limit and offset as sent
FilterAll == [token |-> << >>, type |-> << >>, since |-> NoParam, until |-> NoParam]
Filters ==
    { FilterAll,
      [token |-> Tok1,  type |-> << >>,    since |-> BadParam,     until |-> HugeParam],
      [token |-> << >>, type |-> TypeLoot, since |-> UnixParam(0), until |-> IsoParam(999)],
      [token |-> << >>, type |-> << >>,    since |-> UnixParam(1), until |-> NoParam] }
Gets ==
    {[filter |-> f, limit |-> 0, offset |-> -5] : f \in Filters}
    \cup {[filter |-> FilterAll, limit |-> l, offset |-> -5] : l \in {2, 999999}}
    \cup {[filter |-> FilterAll, limit |-> 999999, offset |-> 1]}

NoResp == [ok |-> FALSE]
NoSess == [on |-> FALSE, clean |-> TRUE, acc |-> << >>, totals |-> {}]

Init ==
    /\ rw = RwIdle
    /\ ex = ExIdle
    /\ clock = 0
    /\ store = << >>
    /\ hpc = [h \in Handlers |-> "idle"]
    /\ hreq = [h \in Handlers |-> << >>]
    /\ hdoc = [h \in Handlers |-> << >>]
    /\ qpc = "idle"
    /\ q = << >>
    /\ resp = NoResp
    /\ sess = NoSess

InFlight == Cardinality({h \in Handlers : hpc[h] = "insert"})

\* the clock moves on
Tick ==
    /\ \E t \in ClockInstants : t > clock /\ clock' = t
    /\ UNCHANGED <<rw, ex, store, hpc, hreq, hdoc, qpc, q, resp, sess>>

\* lines 334-347 of one invocation, and the call of insert_one
DinkReceive(h, ing) ==
    /\ hpc[h] = "idle"
    /\ Len(store) + InFlight < MaxStore
    /\ LET payload == extract_payload([ing.request EXCEPT !.token = ing.token])
       IN hdoc' = [hdoc EXCEPT ![h] = BuildDoc(ing.token, payload, clock)]
    /\ hreq' = [hreq EXCEPT ![h] = ing]
    /\ hpc' = [hpc EXCEPT ![h] = "insert"]
    /\ UNCHANGED <<rw, ex, clock, store, qpc, q, resp, sess>>

\* line 348: the insert reaches the store; the invocation answers
DinkInsert(h) ==
    /\ hpc[h] = "insert"
    /\ store' = Append(store, hdoc[h])
    /\ hpc' = [hpc EXCEPT ![h] = "idle"]
    /\ hreq' = [hreq EXCEPT ![h] = << >>]
    /\ hdoc' = [hdoc EXCEPT ![h] = << >>]
    /\ sess' = [sess EXCEPT !.clean = FALSE]
    /\ UNCHANGED <<rw, ex, clock, qpc, q, resp>>

\* lines 390-408 for the parameters given: the clamps, the query document
\* and the count
CountStep(f, limit, offset) ==
    LET query == BuildQuery(f.token, f.type, f.since, f.until)
    IN [ filter    |-> f,
         rawLimit  |-> limit,
         rawOffset |-> offset,
         limit     |-> ClampLimit(limit),
         offset    |-> ClampOffset(offset),
         query     |-> query,
         total     |-> CountDocuments(store, query),
         skipped   |-> {},
         got       |-> << >>,
         first     |-> 0 ]

\* a GET /recent.json arrives and runs to the count
RecentCount(f, limit, offset) ==
    /\ qpc = "idle"
    /\ q' = CountStep(f, limit, offset)
    /\ qpc' = "fetch"
    /\ resp' = NoResp
    /\ sess' = IF q'.offset = 0
               THEN [on |-> TRUE, clean |-> TRUE, acc |-> << >>, totals |-> {q'.total}]
               ELSE NoSess
    /\ UNCHANGED <<rw, ex, clock, store, hpc, hreq, hdoc>>

\* the client asks for the next page: the same filter and limit, offset =
\* the next_offset of the last response
RecentCountNext ==
    /\ qpc = "idle"
    /\ resp.ok
    /\ resp.next_offset # NoOffset
    /\ q' = CountStep(q.filter, q.rawLimit, resp.next_offset)
    /\ qpc' = "fetch"
    /\ resp' = NoResp
    /\ sess' = [sess EXCEPT !.totals = @ \cup {q'.total}]
    /\ UNCHANGED <<rw, ex, clock, store, hpc, hreq, hdoc>>

\* whether the cursor stays open after a batch: the batch was full and the
\* limit is not reached
CursorOpen(batch, got) == Len(batch) = BatchSize /\ Len(got) < q.limit

\* lines 423-433: next_offset and the response, for the page ids.  matched
\* and latest are history: the numbers of matching documents at the first
\* and at the last batch
Respond(ids, first) ==
    /\ resp' = [ ok          |-> TRUE,
                 total       |-> q.total,
                 limit       |-> q.limit,
                 offset      |-> q.offset,
                 next_offset |-> NextOffset(q.offset, Len(ids), q.total),
                 events      |-> [i \in 1..Len(ids) |-> EventOf(store, ids[i])],
                 matched     |-> first,
                 latest      |-> CountDocuments(store, q.query) ]
    /\ sess' = [sess EXCEPT !.acc = @ \o ids]
    /\ qpc' = "idle"

\* the cursor waits for its next batch
Await ==
    /\ qpc' = "more"
    /\ UNCHANGED <<resp, sess>>

\* lines 411-413: the find and the first batch of the cursor; lines 414-433
\* when the batch ends the cursor
RecentFetch ==
    /\ qpc = "fetch"
    /\ \E order \in SortedOrders(store, q.query) :
       LET batch == Page(order, q.offset, Min(q.limit, BatchSize))
           skip  == {order[i] : i \in 1..Min(q.offset, Len(order))}
       IN /\ q' = [q EXCEPT !.got = batch, !.skipped = skip, !.first = Len(order)]
          /\ IF CursorOpen(batch, batch)
             THEN Await
             ELSE Respond(batch, Len(order))
    /\ UNCHANGED <<rw, ex, clock, store, hpc, hreq, hdoc>>

\* line 413: a further batch of the cursor, read from the store as it is
\* now; lines 414-433 when the batch ends the cursor
RecentMore ==
    /\ qpc = "more"
    /\ LET seen == q.skipped \cup {q.got[i] : i \in 1..Len(q.got)}
           rest == Remaining(store, q.query, seen, q.got[Len(q.got)])
       IN \E order \in SortedOrdersOf(store, rest) :
            LET batch == Page(order, 0, Min(q.limit - Len(q.got), BatchSize))
            IN /\ q' = [q EXCEPT !.got = @ \o batch]
               /\ IF CursorOpen(batch, q.got \o batch)
                  THEN Await
                  ELSE Respond(q.got \o batch, q.first)
    /\ UNCHANGED <<rw, ex, clock, store, hpc, hreq, hdoc>>

Next ==
    \/ Tick
    \/ \E h \in Handlers, ing \in Ingests : DinkReceive(h, ing)
    \/ \E h \in Handlers : DinkInsert(h)
    \/ \E g \in Gets : RecentCount(g.filter, g.limit, g.offset)
    \/ RecentCountNext
    \/ RecentFetch
    \/ RecentMore

Spec == Init /\ [][Next]_vars

(***************************************************************************)
(* Claims C5 and C6, under SpecRewrite.                                    *)
(***************************************************************************)
\* the scanned paths of a document whose embeds are mappings:
\* screenshot_url (i = 0), embeds[i].image.url, embeds[i].thumbnail.url
ScannedPaths(doc) ==
    {[i |-> 0, f |-> "screenshot_url"]}
    \cup (IF HasKey(doc, "embeds")
          THEN {[i |-> n, f |-> g] : n \in 1..Len(doc.d.embeds.l), g \in {"image", "thumbnail"}}
          ELSE {})

ValueAt(doc, p) ==
    IF p.i = 0
    THEN (IF HasKey(doc, "screenshot_url") THEN doc.d.screenshot_url ELSE Absent)
    ELSE LET sub == Get(doc.d.embeds.l[p.i], p.f)
         IN IF IsDict(sub) /\ HasKey(sub, "url") THEN sub.d.url ELSE Absent

IsAttachmentRef(v) == IsStr(v) /\ StartsWith(Lower(StrChars(v)), AttachmentPfx)
\* the suffix after the scheme, as written
Suffix(v) == SubSeq(StrChars(v), Len(AttachmentPfx) + 1, Len(StrChars(v)))

\* what C5 as stated allows for an attachment reference v: the reference of
\* the exact key, else of a key equal up to case, composed as the claim says
C5_StatedResults(v, mapping, base) ==
    LET exact == {k \in DOMAIN mapping : k = Suffix(v)}
        anyCase == {k \in DOMAIN mapping : Lower(k) = Lower(Suffix(v))}
        keys == IF exact # {} THEN exact ELSE anyCase
    IN IF keys = {} THEN {v}
       ELSE {IF IsAbsolute(mapping[k]) THEN PyStr(mapping[k])
             ELSE PyStr(base \o UploadsPath \o mapping[k]) : k \in keys}

RewriteDone == rw.pass >= 1 /\ rw.doc \notin MalformedDocs

\* C5 as stated: every attachment:// value at a scanned path is replaced by
\* the reference found under its suffix (exact key first, then ignoring
\* case), verbatim when absolute and as baseUrl + "/uploads/" + reference
\* otherwise, and is left unchanged when no key matches.
C5_AsStated ==
    RewriteDone =>
        \A p \in ScannedPaths(rw.doc) :
            IsAttachmentRef(ValueAt(rw.doc, p)) =>
                ValueAt(rw.out1, p) \in C5_StatedResults(ValueAt(rw.doc, p), rw.mapping, rw.base)

\* C5, amended: every attachment:// value (scheme compared ignoring case) at
\* a scanned path is looked up by its lower-cased suffix only; when that key
\* is in the mapping the value becomes the reference verbatim if it begins
\* with http:// or https://, and baseUrl without its trailing "/" characters
\* + "/uploads/" + reference otherwise; when that key is not in the mapping
\* the value is unchanged, and so is every value that is no attachment
\* reference.
C5_LowerCasedLookup ==
    RewriteDone =>
        \A p \in ScannedPaths(rw.doc) :
            LET v   == ValueAt(rw.doc, p)
                key == Lower(Suffix(v))
            IN ValueAt(rw.out1, p) =
                 IF IsAttachmentRef(v) /\ key \in DOMAIN rw.mapping
                 THEN (IF IsAbsolute(rw.mapping[key]) THEN PyStr(rw.mapping[key])
                       ELSE PyStr(RStrip(rw.base, "/") \o UploadsPath \o rw.mapping[key]))
                 ELSE v

\* a reference in upper case was rewritten through the lower-cased key while
\* a reference with no key stayed as it was
C5_Witness ==
    /\ rw.pass = 1
    /\ rw.doc \notin MalformedDocs
    /\ rw.mapping = (NameLo :> RefRel)
    /\ ValueAt(rw.doc, [i |-> 0, f |-> "screenshot_url"]) = UrlAttCaps
    /\ ValueAt(rw.out1, [i |-> 0, f |-> "screenshot_url"])
         = PyStr(RStrip(rw.base, "/") \o UploadsPath \o RefRel)
    /\ \E p \in ScannedPaths(rw.doc) :
         ValueAt(rw.doc, p) = UrlAttMiss /\ ValueAt(rw.out1, p) = UrlAttMiss

\* C6: applying _patch_attachment_urls to its own result, with the same
\* mapping and base URL, changes nothing: the second result equals the
\* first, and no value the first pass rewrote is an attachment reference.
C6_Idempotent ==
    /\ rw.pass = 2 => rw.out2 = rw.out1
    /\ RewriteDone =>
         \A p \in ScannedPaths(rw.doc) :
             ValueAt(rw.out1, p) # ValueAt(rw.doc, p) => ~IsAttachmentRef(ValueAt(rw.out1, p))

\* the second pass ran on a document whose first pass rewrote a reference
C6_Witness ==
    /\ rw.pass = 2
    /\ rw.out1 # rw.doc
    /\ \E p \in ScannedPaths(rw.doc) :
         IsAttachmentRef(ValueAt(rw.doc, p)) /\ ValueAt(rw.out1, p) # ValueAt(rw.doc, p)
    /\ \E p \in ScannedPaths(rw.doc) : ValueAt(rw.out1, p) = UrlAttMiss

(***************************************************************************)
(* Claims C3 and C4, under SpecExtract.                                    *)
(***************************************************************************)
Extracted == ex.pass = 1

\* C3: extract_payload never raises and its result is always a mapping
\* (possibly empty); when no declared strategy succeeds the result is the
\* raw-JSON-decoded body if that is an object and the empty document
\* otherwise.
C3_AsStated ==
    Extracted =>
        /\ ex.result # Raised
        /\ IsDict(ex.result)
        /\ (ex.request.ctype = {} =>
              ex.result = IF IsDict(_try_json(BodyText(ex.request.body)))
                          THEN _try_json(BodyText(ex.request.body)) ELSE EmptyDict)

\* the rule C4 states, on a mapping of fields
C4_Resolve(fields) ==
    LET pj == IF HasKey(fields, "payload_json")
              THEN _try_json(fields.d["payload_json"].t) ELSE PyNone
        pl == IF HasKey(fields, "payload")
              THEN _try_json(fields.d["payload"].t) ELSE PyNone
    IN IF IsDict(pj) THEN pj ELSE IF IsDict(pl) THEN pl ELSE fields

\* C4: a form-url-encoded body and a multipart body resolve the document by
\* the same rule: payload_json, then payload, the first that decodes to a
\* JSON object; the raw field mapping when neither does.  (The multipart
\* document then has its attachment references rewritten.)
C4_AsStated ==
    Extracted =>
        /\ (ex.request.ctype = {CtForm} /\ ex.request.body.kind = "form" =>
              ex.result = C4_Resolve(
                  PyDict([key \in QsKeys(ex.request.body.pairs) |->
                             PyText(QsFirst(ex.request.body.pairs, key))])))
        /\ (ex.request.ctype = {CtMultipart} /\ ex.request.body.kind = "multipart" =>
              LET fields == PartFields(ex.request.body.parts)
                  saved  == PartSaved(ex.request.body.parts, ex.request.token,
                                      ex.request.storage, ex.request.base)
                  doc    == _patch_attachment_urls(C4_Resolve(fields), saved, ex.request.base)
              IN doc # Raised => ex.result = doc)

(***************************************************************************)
(* Claims C1, C2, C7, C8, C9 and C10, under Spec.                          *)
(***************************************************************************)
\* the client began at offset 0, followed next_offset to the last page, and
\* no insert reached the store meanwhile
SessionDone ==
    /\ qpc = "idle"
    /\ resp.ok
    /\ resp.next_offset = NoOffset
    /\ sess.on
    /\ sess.clean

\* C1: for a fixed filter and limit, the pages from offset 0 along
\* next_offset until it is null, with no insert meanwhile, concatenate to
\* the full sequence of the matching records in descending receivedAt
\* order, no record twice and none missing, and every page reports the same
\* total.
C1_AsStated ==
    SessionDone =>
        /\ Len(sess.acc) = Cardinality(MatchingIds(store, q.query))
        /\ {sess.acc[i] : i \in 1..Len(sess.acc)} = MatchingIds(store, q.query)
        /\ \A i, j \in 1..Len(sess.acc) :
              i < j => /\ sess.acc[i] # sess.acc[j]
                       /\ store[sess.acc[i]].time_dt >= store[sess.acc[j]].time_dt
        /\ sess.totals = {Len(sess.acc)}

\* C2: every stored record has a non-null token, a non-null receivedAt and
\* a non-null payload (an empty mapping at least).
C2_AsStated ==
    \A i \in 1..Len(store) :
        /\ store[i].token \in {ing.token : ing \in Ingests}
        /\ store[i].time_dt \in Nat
        /\ store[i].payload # PyNone

\* the window of C7: receivedAt within [since, until], a bound that is
\* absent or does not parse leaving its side open
InWindow(doc, since, until) ==
    /\ _parse_time_param_dt(since).some =>
          doc.time_dt >= TimeDt(_parse_time_param_dt(since).us)
    /\ _parse_time_param_dt(until).some =>
          doc.time_dt <= TimeDt(_parse_time_param_dt(until).us)

\* C7: the events of a response all satisfy the filters given (token, the
\* upper-cased type, the inclusive window), and come in descending
\* receivedAt order, records of equal receivedAt in insertion order, the
\* newest first.
C7_AsStated ==
    resp.ok =>
        /\ \A i \in 1..Len(resp.events) :
              LET doc == store[resp.events[i].id]
              IN /\ Len(q.filter.token) > 0 => doc.token = q.filter.token
                 /\ Len(q.filter.type) > 0 => doc.eventType = Upper(q.filter.type)
                 /\ InWindow(doc, q.filter.since, q.filter.until)
        /\ \A i, j \in 1..Len(resp.events) :
              i < j =>
                 LET a == resp.events[i].id
                     b == resp.events[j].id
                 IN \/ store[a].time_dt > store[b].time_dt
                    \/ store[a].time_dt = store[b].time_dt /\ a > b

\* C8: a record inserted before another has a receivedAt that is not
\* later, also when invocations run concurrently.
C8_AsStated ==
    \A i, j \in 1..Len(store) : i < j => store[i].time_dt <= store[j].time_dt

\* C9: the response's limit is the limit sent clamped into [1, 10000] and
\* its offset is the offset sent clamped to at least 0; a request whose
\* count ran is never refused for its limit or offset.
C9_Clamped ==
    /\ qpc = "fetch" => q.limit \in 1..10000 /\ q.offset >= 0
    /\ resp.ok =>
         /\ resp.limit = IF q.rawLimit < 1 THEN 1
                         ELSE IF q.rawLimit > 10000 THEN 10000 ELSE q.rawLimit
         /\ resp.offset = IF q.rawOffset < 0 THEN 0 ELSE q.rawOffset

\* limit=999999 was answered with limit 10000 and offset=-5 with offset 0
C9_Witness ==
    /\ resp.ok
    /\ q.rawLimit = 999999 /\ resp.limit = 10000
    /\ q.rawOffset = -5 /\ resp.offset = 0
    /\ Len(resp.events) = 2

\* C10 as stated: the events of a response number min(limit, max(0, total -
\* offset)), and next_offset is null only when the page reaches the last
\* matching record the fetch saw, also when an insert lands between the
\* count and the fetch.
C10_AsStated ==
    resp.ok =>
        /\ Len(resp.events) = Min(resp.limit, Max(0, resp.total - resp.offset))
        /\ resp.next_offset = NoOffset =>
              resp.offset + Len(resp.events) >= resp.matched

\* C10, amended: the events of a response number at least min(limit,
\* max(0, m1 - offset)) and at most min(limit, max(0, m2 - offset)), m1 and
\* m2 the numbers of matching records when the fetch read its first and
\* its last batch, with total <= m1 <= m2; next_offset is null exactly when
\* offset + len(events) >= total and is offset + len(events) otherwise.
C10_FetchSeesMore ==
    resp.ok =>
        /\ Len(resp.events) >= Min(resp.limit, Max(0, resp.matched - resp.offset))
        /\ Len(resp.events) <= Min(resp.limit, Max(0, resp.latest - resp.offset))
        /\ resp.total <= resp.matched
        /\ resp.matched <= resp.latest
        /\ resp.next_offset = NoOffset <=>
              resp.offset + Len(resp.events) >= resp.total
        /\ resp.next_offset # NoOffset =>
              resp.next_offset = resp.offset + Len(resp.events)

\* an insert landed between the count and the fetch of the response
C10_Witness ==
    /\ resp.ok
    /\ resp.matched > resp.total
    /\ Len(resp.events) > Max(0, resp.total - resp.offset)

=============================================================================
